---- MODULE Spec2Model ----
(***************************************************************************)
(* htshell: a Session Driver that creates a scratch token file, fetches a  *)
(* bearer token with the external tool htgettoken, keeps refreshing it in  *)
(* a background goroutine and runs the user's shell in the foreground.     *)
(*                                                                         *)
(* Three evolutions of the driver are in the repository:                   *)
(*   "main_go"   src/main.go             (inline goroutine, no config)     *)
(*   "part_001"  src/unnamed/part_001    (inline goroutine, interval env)  *)
(*   "part_000"  src/unnamed/part_000    (Refresher type, log file)        *)
(*                                                                         *)
(* Spec            the Session Driver, one of the three variants per run.  *)
(* RefresherSpec   a client that calls Start and Stop of the part_000      *)
(*                 Refresher type in any order.                            *)
(* FairSpec, FairRefresherSpec   the same with the scheduling fairness.    *)
(*                                                                         *)
(* Strings that the code parses are sequences of one-character strings.    *)
(* Durations are in seconds.                                               *)
(***************************************************************************)
EXTENDS Integers, Sequences, FiniteSets, TLC

\* ---------------------------------------------------------------- bounds
\* goroutines (calls of Start) a run may create
MaxStarts == 2
\* the discrete clock stops advancing here
MaxTime == 3
\* invocations of the external fetch tool in one run
MaxCalls == 3

\* ------------------------------------------------------------- constants
\* 10 * time.Minute, in seconds
DefaultRefreshInterval == 600

Variants == {"main_go", "part_001", "part_000"}

\* "/bin/bash"
Fallback ==
  << "/", "b", "i", "n", "/", "b", "a", "s", "h" >>

\* names os.CreateTemp may pick (the random suffix)
TempNames == {"/tmp/bt_u1_A", "/tmp/bt_u1_B"}

\* values HTSHELL_REFRESH_INTERVAL may hold
IntervalStrings ==
  { <<"0">>, <<"-", "1", "s">>, <<"1", "s">>, <<"2", "s">>, <<"x">>, <<"5">> }

\* values SHELL may hold
ShellStrings ==
  { << "/", "b", "i", "n", "/", "z", "s", "h" >>, <<>> }

\* a BEARER_TOKEN_FILE the invoking environment may already export
InheritedTokenFiles == {"/home/u/other"}

\* intervals a client of the Refresher passes to Start
StartIntervals == {1, 2}

\* exit codes of the shell
ExitCodes == {0, 1}

\* ------------------------------------------------------ time.ParseDuration
Digits == {"0", "1", "2", "3", "4", "5", "6", "7", "8", "9"}

DigitVal(c) ==
  CASE c = "0" -> 0 [] c = "1" -> 1 [] c = "2" -> 2 [] c = "3" -> 3
    [] c = "4" -> 4 [] c = "5" -> 5 [] c = "6" -> 6 [] c = "7" -> 7
    [] c = "8" -> 8 [] c = "9" -> 9

UnitVal(c) == CASE c = "s" -> 1 [] c = "m" -> 60 [] c = "h" -> 3600

Units == {"s", "m", "h"}

RECURSIVE LeadingInt(_, _)
\* the value of the leading digits of s, continuing from acc
LeadingInt(s, acc) ==
  IF s = <<>> \/ Head(s) \notin Digits THEN acc
  ELSE LeadingInt(Tail(s), 10 * acc + DigitVal(Head(s)))

RECURSIVE DropDigits(_)
DropDigits(s) ==
  IF s = <<>> \/ Head(s) \notin Digits THEN s ELSE DropDigits(Tail(s))

\* time.ParseDuration restricted to [sign] digits unit (one group, no
\* fraction): "0" is zero, a missing or unknown unit or an empty string is
\* an error.  The result is [err, d].
ParseDuration(str) ==
  LET neg  == str # <<>> /\ Head(str) = "-"
      body == IF str # <<>> /\ Head(str) \in {"-", "+"} THEN Tail(str) ELSE str
      rest == DropDigits(body)
      n    == LeadingInt(body, 0)
  IN  IF body = <<"0">> THEN [err |-> FALSE, d |-> 0]
      ELSE IF body = <<>> \/ rest = body THEN [err |-> TRUE, d |-> 0]
      ELSE IF Len(rest) # 1 \/ Head(rest) \notin Units
             THEN [err |-> TRUE, d |-> 0]
      ELSE [err |-> FALSE,
            d |-> (IF neg THEN -1 ELSE 1) * n * UnitVal(Head(rest))]

\* ---------------------------------------------------------- environment
\* os.LookupEnv: the second result
LookupEnv(e, k) == k \in DOMAIN e

\* faulty variant: the variable is never exported
SetenvNoop(e, k, v) == e

\* os.Setenv
Setenv(e, k, v) == [x \in DOMAIN e \cup {k} |-> IF x = k THEN v ELSE e[x]]

\* the environments a run may start in
Environments ==
  { i @@ b @@ s :
      i \in {<<>>} \cup {("HTSHELL_REFRESH_INTERVAL" :> v) : v \in IntervalStrings},
      b \in {<<>>} \cup {("BEARER_TOKEN_FILE" :> v) : v \in InheritedTokenFiles},
      s \in {<<>>} \cup {("SHELL" :> v) : v \in ShellStrings} }

\* ------------------------------------------------------------------ state
VARIABLES
  variant,          \* which evolution of the driver runs
  env,              \* the process environment: name -> value
  RefreshInterval,  \* the package variable, seconds
  mainpc,           \* the foreground flow's position
  panicking,        \* main is unwinding because of a panic
  proc,             \* "running", or how the process ended
  defers,           \* main's deferred calls, next to run first
  tokName,          \* tok.Name(), "" before os.CreateTemp
  tokExists,        \* the TokenFile is on disk
  logExists,        \* the refresher log file is on disk
  rLog,             \* r.Log # nil
  initRes,          \* result of the initial Refresh(true)
  rcancel,          \* r.cancel / cancel: the context it cancels, 0 = nil
  wg,               \* the WaitGroup counter
  ctxDone,          \* context -> its Done channel is closed
  gor,              \* goroutine -> [pc, interval, deadline]
  nstarts,          \* goroutines created so far
  now,              \* the clock, seconds
  calls,            \* invocations of htgettoken so far
  toolDest,         \* every BEARER_TOKEN_FILE an invocation was given
  errLog,           \* "error refreshing token" lines written to the log sink
  sh,               \* the resolved shell path
  shell,            \* the shell process: "none", "running", "exited"
  shellCode,        \* the shell's exit code
  lookup,           \* what the getent lookup of Getsh gave
  stub,             \* a shell stub's lifetime and what is left of it
  stops             \* calls of Stop (or cancel(); wg.Wait()) that returned

vars ==
  << variant, env, RefreshInterval, mainpc, panicking, proc, defers, tokName,
     tokExists, logExists, rLog, initRes, rcancel, wg, ctxDone, gor, nstarts,
     now, calls, toolDest, errLog, sh, shell, shellCode, lookup, stub, stops >>

Goroutines == 1..MaxStarts

NoGoroutine == [pc |-> "none", interval |-> 0, deadline |-> 0]

\* Getsh has not run
NoLookup == [exec |-> FALSE, err |-> FALSE, out |-> <<>>, done |-> FALSE]

\* the shell is the user's shell, which exits when it likes
NoStub == [life |-> 0, left |-> 0]

\* faulty variant: the refresher is started before the initial refresh
ProgramStartFirst(v) ==
  CASE v = "part_000" ->
         << "init", "user", "createTemp", "setenv", "createLog", "start",
            "initRefresh", "getsh", "cmdStart", "cmdWait", "return" >>
    [] v = "part_001" ->
         << "init", "user", "createTemp", "setenv", "start", "initRefresh",
            "getsh", "cmdStart", "cmdWait", "cancel", "wgWait", "return" >>
    [] v = "main_go" ->
         << "user", "getsh", "createTemp", "start", "initRefresh", "cmdStart",
            "cmdWait", "cancel", "wgWait", "return" >>

\* the statements of main, in order, at the granularity of the model
Program(v) ==
  CASE v = "part_000" ->
         << "init", "user", "createTemp", "setenv", "createLog", "initRefresh",
            "start", "getsh", "cmdStart", "cmdWait", "return" >>
    [] v = "part_001" ->
         << "init", "user", "createTemp", "setenv", "initRefresh", "start",
            "getsh", "cmdStart", "cmdWait", "cancel", "wgWait", "return" >>
    [] v = "main_go" ->
         << "user", "getsh", "createTemp", "initRefresh", "start", "cmdStart",
            "cmdWait", "cancel", "wgWait", "return" >>

Pos(v, pc) == CHOOSE i \in 1..Len(Program(v)) : Program(v)[i] = pc

\* the statement after pc
Succ(v, pc) == Program(v)[Pos(v, pc) + 1]

InitCommon ==
  /\ panicking = FALSE
  /\ proc = "running"
  /\ defers = <<>>
  /\ tokName = ""
  /\ tokExists = FALSE
  /\ logExists = FALSE
  /\ initRes = "none"
  /\ rcancel = 0
  /\ wg = 0
  /\ ctxDone = [c \in Goroutines |-> FALSE]
  /\ gor = [g \in Goroutines |-> NoGoroutine]
  /\ nstarts = 0
  /\ now = 0
  /\ calls = 0
  /\ toolDest = {}
  /\ errLog = 0
  /\ sh = <<>>
  /\ shell = "none"
  /\ shellCode = 0
  /\ lookup = NoLookup
  /\ stops = 0
  /\ RefreshInterval = DefaultRefreshInterval

\* the Session Driver at process start
Init ==
  /\ variant \in Variants
  /\ env \in Environments
  /\ mainpc = Head(Program(variant))
  /\ rLog = FALSE
  /\ stub = NoStub
  /\ InitCommon

\* --------------------------------------------------------------- Getsh
\* user:x:1000:1000::/home/user:/bin/zsh
PasswdLine ==
  << "u", "s", "e", "r", ":", "x", ":", "1", "0", "0", "0", ":",
     "1", "0", "0", "0", ":", ":", "/", "h", "o", "m", "e",
     "/", "u", "s", "e", "r", ":", "/", "b", "i", "n", "/",
     "z", "s", "h" >>

\* what `getent passwd <user>` may give: exec's error and the output (the
\* passwd line as getent prints it and without the final newline, lines with
\* an empty last field, a line that starts with its only colon, and a line
\* with no colon)
GetentResults ==
  { [err |-> TRUE,  out |-> <<>>],
    [err |-> FALSE, out |-> <<>>],
    [err |-> FALSE, out |-> PasswdLine \o <<"\n">>],
    [err |-> FALSE, out |-> PasswdLine],
    [err |-> FALSE, out |-> <<"u", ":", "\n">>],
    [err |-> FALSE, out |-> <<"u", ":">>],
    [err |-> FALSE, out |-> <<":", "u", "\n">>],
    [err |-> FALSE, out |-> <<"u", "\n">>] }

\* bytes.LastIndex(out, ":") as a 0-based index, -1 when there is none
LastIndexColon(out) ==
  LET at == {i \in 1..Len(out) : out[i] = ":"}
  IN  IF at = {} THEN -1 ELSE (CHOOSE i \in at : \A j \in at : j <= i) - 1

\* Getsh(u, fallback): [sh, err, panic].  useShell is whether the variant
\* consults SHELL first; out[loc+1 : len(out)-1] panics when the bounds cross.
Getsh(e, useShell, ge, fallback) ==
  IF useShell /\ LookupEnv(e, "SHELL")
    THEN [sh |-> e["SHELL"], err |-> FALSE, panic |-> FALSE]
  ELSE IF ge.err THEN [sh |-> fallback, err |-> TRUE, panic |-> FALSE]
  ELSE IF Len(ge.out) = 0 THEN [sh |-> fallback, err |-> TRUE, panic |-> FALSE]
  ELSE LET loc == LastIndexColon(ge.out)
       IN  IF loc <= 0 THEN [sh |-> fallback, err |-> TRUE, panic |-> FALSE]
           ELSE IF loc + 1 > Len(ge.out) - 1
                  THEN [sh |-> <<>>, err |-> FALSE, panic |-> TRUE]
           ELSE [sh |-> SubSeq(ge.out, loc + 2, Len(ge.out) - 1),
                 err |-> FALSE, panic |-> FALSE]

\* ------------------------------------------------- the external fetch tool
\* the destination the tool is given: main.go passes BEARER_TOKEN_FILE=f in
\* cmd.Env; the later variants leave cmd.Env nil, so the tool inherits the
\* process environment
ToolDest(f) ==
  IF variant = "main_go" THEN f
  ELSE IF LookupEnv(env, "BEARER_TOKEN_FILE") THEN env["BEARER_TOKEN_FILE"]
  ELSE "(unset)"

\* cmd.Run begins: htgettoken is running
RunTool(f) ==
  /\ calls' = calls + 1
  /\ toolDest' = toolDest \cup {ToolDest(f)}

\* ---------------------------------------------------- process termination
\* log.Fatalf: os.Exit(1), deferred calls do not run
Fatal ==
  /\ proc' = "fatal"
  /\ UNCHANGED << mainpc, panicking, defers >>

\* faulty variant: a panic that drops the deferred calls
PanicDropsDefers ==
  /\ panicking' = TRUE
  /\ mainpc' = "unwind"
  /\ defers' = <<>>
  /\ UNCHANGED proc

\* panic(err) in main: the deferred calls run, then the process dies
Panic ==
  /\ panicking' = TRUE
  /\ mainpc' = "unwind"
  /\ UNCHANGED << proc, defers >>

\* fall through to the next statement
Goto(l) ==
  /\ mainpc' = l
  /\ UNCHANGED << proc, panicking, defers >>

Running(l) == proc = "running" /\ mainpc = l

\* ------------------------------------------------------------ Refresher
\* ctx, cancel := context.WithCancel(...); r.cancel = cancel; r.wg.Add(1);
\* go func(ctx) {...}(ctx).  The goroutine's context has the goroutine's id.
StartRefresher(interval) ==
  LET g == nstarts + 1
  IN  /\ nstarts < MaxStarts
      /\ nstarts' = g
      /\ rcancel' = g
      /\ wg' = wg + 1
      /\ gor' = [gor EXCEPT ![g] =
                   [pc |-> "spawned", interval |-> interval, deadline |-> 0]]
      /\ UNCHANGED ctxDone

\* faulty variant: cancel() closes nothing
CancelNothing(c) == ctxDone

\* cancel(): closes the Done channel of context c
Cancel(c) == [ctxDone EXCEPT ![c] = TRUE]

\* faulty variant: Stop does not wait for the goroutine
WaitReturnsAtOnce == TRUE

\* wg.Wait() returns when the counter is zero
WaitReturns == wg = 0

\* faulty variant: the timer fires one unit late
TimerReadyLate(g) == now > gor[g].deadline

\* <-time.After(interval) can proceed
TimerReady(g) == now >= gor[g].deadline

\* faulty variant: the cancellation is seen only once the timer is due
CancelReadyAfterTimer(g) == ctxDone[g] /\ TimerReady(g)

\* <-ctx.Done() can proceed
CancelReady(g) == ctxDone[g]

\* r.Log != nil && ... / log.Printf of the standard logger
HasLogSink == IF variant = "part_000" THEN rLog ELSE TRUE

\* faulty variant: a failed refresh ends the loop
AfterRefreshStopOnError(g, err) ==
  IF err THEN [gor[g] EXCEPT !.pc = "done"]
  ELSE [gor[g] EXCEPT !.pc = "select", !.deadline = now + gor[g].interval]

\* faulty variant: the loop looks at the context after each refresh
AfterRefreshChecksCancel(g, err) ==
  IF ctxDone[g] THEN [gor[g] EXCEPT !.pc = "done"]
  ELSE [gor[g] EXCEPT !.pc = "select", !.deadline = now + gor[g].interval]

\* the loop after Refresh(false) returned: back to the select, with a new
\* timer, whatever err is
AfterRefresh(g, err) ==
  [gor[g] EXCEPT !.pc = "select", !.deadline = now + gor[g].interval]

UnchangedMain ==
  UNCHANGED << variant, lookup, stub, env, RefreshInterval, mainpc,
               panicking, proc, defers,
               tokName, tokExists, logExists, rLog, initRes, sh, shell,
               shellCode, stops >>

\* the goroutine is scheduled and reaches the select: time.After(interval)
GoEnter(g) ==
  /\ proc = "running"
  /\ gor[g].pc = "spawned"
  /\ gor' = [gor EXCEPT ![g].pc = "select",
                        ![g].deadline = now + gor[g].interval]
  /\ UNCHANGED << rcancel, wg, ctxDone, nstarts, now, calls, toolDest, errLog >>
  /\ UnchangedMain

\* case <-time.After(interval): Refresh(false) begins (MaxCalls bounds the
\* invocations of a run)
GoSelectTimer(g) ==
  /\ proc = "running"
  /\ gor[g].pc = "select"
  /\ TimerReady(g)
  /\ calls < MaxCalls
  /\ gor' = [gor EXCEPT ![g].pc = "refresh"]
  /\ RunTool(tokName)
  /\ UNCHANGED << rcancel, wg, ctxDone, nstarts, now, errLog >>
  /\ UnchangedMain

\* htgettoken exits; a failure is logged and the loop goes on
GoRefreshReturn(g) ==
  /\ proc = "running"
  /\ gor[g].pc = "refresh"
  /\ \E err \in BOOLEAN :
       /\ gor' = [gor EXCEPT ![g] = AfterRefresh(g, err)]
       /\ errLog' = IF err /\ HasLogSink THEN errLog + 1 ELSE errLog
       /\ wg' = IF AfterRefresh(g, err).pc = "done" THEN wg - 1 ELSE wg
  /\ UNCHANGED << rcancel, ctxDone, nstarts, now, calls, toolDest >>
  /\ UnchangedMain

\* case <-ctx.Done(): return, and the deferred wg.Done()
GoSelectCancel(g) ==
  /\ proc = "running"
  /\ gor[g].pc = "select"
  /\ CancelReady(g)
  /\ gor' = [gor EXCEPT ![g].pc = "done"]
  /\ wg' = wg - 1
  /\ UNCHANGED << rcancel, ctxDone, nstarts, now, calls, toolDest, errLog >>
  /\ UnchangedMain

\* a second passes.  The program reads the clock only through the timers of
\* the select, so the clock is advanced only while one of them is pending.
Tick ==
  /\ proc = "running"
  /\ now < MaxTime
  /\ \E g \in Goroutines : gor[g].pc = "select" /\ ~TimerReady(g)
  /\ now' = now + 1
  /\ UNCHANGED << rcancel, wg, ctxDone, gor, nstarts, calls, toolDest, errLog >>
  /\ UnchangedMain

\* a background Refresh(false) is running
InFlight(g) == gor[g].pc = "refresh"

\* the goroutine exists and has not returned
Alive(g) == gor[g].pc \in {"spawned", "select", "refresh"}

\* -------------------------------------------------------- Session Driver
UnchangedRefresher ==
  UNCHANGED << rcancel, wg, ctxDone, gor, nstarts >>

UnchangedTool == UNCHANGED << calls, toolDest, errLog >>

UnchangedFiles == UNCHANGED << tokName, tokExists, logExists, rLog >>

\* faulty variant: deferred calls run first in, first out
PushDeferLast(d, stack) == Append(stack, d)

\* faulty variant: the call is deferred twice
PushDeferTwice(d, stack) == <<d, d>> \o stack

\* defer d: deferred calls run last in, first out
PushDefer(d, stack) == <<d>> \o stack

\* faulty variant: the result of the initial refresh is always dropped
InitialRefreshNeverFatal(v, err) == FALSE

\* whether main aborts on the result of the initial Refresh(true): main.go
\* drops the result
InitialRefreshFatal(v, err) == err /\ v # "main_go"

\* func init(): HTSHELL_REFRESH_INTERVAL, panic on a parse error
MainInit ==
  /\ Running("init")
  /\ IF LookupEnv(env, "HTSHELL_REFRESH_INTERVAL")
       THEN LET r == ParseDuration(env["HTSHELL_REFRESH_INTERVAL"])
            IN  IF r.err
                  THEN /\ proc' = "panic"
                       /\ UNCHANGED << RefreshInterval, mainpc, panicking,
                                       defers >>
                  ELSE /\ RefreshInterval' = r.d
                       /\ Goto(Succ(variant, "init"))
       ELSE /\ Goto(Succ(variant, "init"))
            /\ UNCHANGED RefreshInterval
  /\ UNCHANGED << variant, lookup, stub, env, initRes, now, sh, shell,
                  shellCode, stops >>
  /\ UnchangedFiles /\ UnchangedRefresher /\ UnchangedTool

\* user.Current()
MainUser ==
  /\ Running("user")
  /\ \E ok \in BOOLEAN : IF ok THEN Goto(Succ(variant, "user")) ELSE Fatal
  /\ UNCHANGED << variant, lookup, stub, env, RefreshInterval, initRes, now,
                  sh, shell,
                  shellCode, stops >>
  /\ UnchangedFiles /\ UnchangedRefresher /\ UnchangedTool

\* os.CreateTemp and defer os.Remove(tok.Name()).  On an error part_000 exits
\* with log.Fatalf; the older variants evaluate tok.Name() on the nil file for
\* the message, which panics.
MainCreateTemp ==
  /\ Running("createTemp")
  /\ \/ \E name \in TempNames :
          /\ tokName' = name
          /\ tokExists' = TRUE
          /\ defers' = PushDefer("rmTok", defers)
          /\ mainpc' = Succ(variant, "createTemp")
          /\ UNCHANGED << proc, panicking >>
     \/ /\ IF variant = "part_000" THEN Fatal ELSE Panic
        /\ UNCHANGED << tokName, tokExists >>
  /\ UNCHANGED << variant, lookup, stub, env, RefreshInterval, initRes, now,
                  sh, shell,
                  shellCode, stops,
                  logExists, rLog >>
  /\ UnchangedRefresher /\ UnchangedTool

\* os.Setenv("BEARER_TOKEN_FILE", tok.Name())
MainSetenv ==
  /\ Running("setenv")
  /\ env' = Setenv(env, "BEARER_TOKEN_FILE", tokName)
  /\ Goto(Succ(variant, "setenv"))
  /\ UNCHANGED << variant, lookup, stub, RefreshInterval, initRes, now, sh,
                  shell,
                  shellCode, stops >>
  /\ UnchangedFiles /\ UnchangedRefresher /\ UnchangedTool

\* os.Create(tok.Name() + ".log"), defer os.Remove(rlog.Name()), r := Refresher{}
MainCreateLog ==
  /\ Running("createLog")
  /\ \/ /\ logExists' = TRUE
        /\ rLog' = TRUE
        /\ defers' = PushDefer("rmLog", defers)
        /\ mainpc' = Succ(variant, "createLog")
        /\ UNCHANGED << proc, panicking >>
     \/ /\ Fatal
        /\ UNCHANGED << logExists, rLog >>
  /\ UNCHANGED << variant, lookup, stub, env, RefreshInterval, initRes, now,
                  sh, shell,
                  shellCode, stops,
                  tokName, tokExists >>
  /\ UnchangedRefresher /\ UnchangedTool

\* Refresh(true): htgettoken is started in the foreground
MainRefreshBegin ==
  /\ Running("initRefresh")
  /\ RunTool(tokName)
  /\ Goto("initRefreshRun")
  /\ UNCHANGED << variant, lookup, stub, env, RefreshInterval, initRes, now,
                  sh, shell,
                  shellCode, stops,
                  errLog >>
  /\ UnchangedFiles /\ UnchangedRefresher

\* Refresh(true) returns
MainRefreshEnd ==
  /\ Running("initRefreshRun")
  /\ \E err \in BOOLEAN :
       /\ initRes' = IF err THEN "err" ELSE "ok"
       /\ IF InitialRefreshFatal(variant, err) THEN Fatal
          ELSE Goto(Succ(variant, "initRefresh"))
  /\ UNCHANGED << variant, lookup, stub, env, RefreshInterval, now, sh,
                  shell, shellCode,
                  stops >>
  /\ UnchangedFiles /\ UnchangedRefresher /\ UnchangedTool

\* r.Start(RefreshInterval); defer r.Stop()  (part_000)
\* the inline context, wg.Add(1) and go func  (part_001, main.go)
MainStart ==
  /\ Running("start")
  /\ StartRefresher(RefreshInterval)
  /\ defers' = IF variant = "part_000" THEN PushDefer("stop", defers) ELSE defers
  /\ mainpc' = Succ(variant, "start")
  /\ UNCHANGED << proc, panicking >>
  /\ UNCHANGED << variant, lookup, stub, env, RefreshInterval, initRes, now,
                  sh, shell,
                  shellCode, stops >>
  /\ UnchangedFiles /\ UnchangedTool

\* sh, err := Getsh(u, "/bin/bash"); an error is only logged
MainGetsh ==
  /\ Running("getsh")
  /\ \E ge \in GetentResults :
       LET r == Getsh(env, variant # "main_go", ge, Fallback)
       IN  /\ lookup' = IF variant # "main_go" /\ LookupEnv(env, "SHELL")
                           THEN [NoLookup EXCEPT !.done = TRUE]
                         ELSE [exec |-> TRUE, err |-> ge.err, out |-> ge.out,
                               done |-> TRUE]
           /\ IF r.panic THEN Panic /\ UNCHANGED sh
              ELSE sh' = r.sh /\ Goto(Succ(variant, "getsh"))
  /\ UNCHANGED << variant, stub, env, RefreshInterval, initRes, now, shell,
                  shellCode, stops >>
  /\ UnchangedFiles /\ UnchangedRefresher /\ UnchangedTool

\* cmd.Start(): the shell is launched, or main panics
MainCmdStart ==
  /\ Running("cmdStart")
  /\ \/ /\ sh # <<>>
        /\ shell' = "running"
        /\ Goto(Succ(variant, "cmdStart"))
     \/ /\ Panic
        /\ UNCHANGED shell
  /\ UNCHANGED << variant, lookup, stub, env, RefreshInterval, initRes, now,
                  sh, shellCode,
                  stops >>
  /\ UnchangedFiles /\ UnchangedRefresher /\ UnchangedTool

\* the shell process exits, with whatever code
ShellExit ==
  /\ proc = "running"
  /\ shell = "running"
  /\ shell' = "exited"
  /\ shellCode' \in ExitCodes
  /\ UNCHANGED << variant, lookup, stub, env, RefreshInterval, mainpc,
                  panicking, proc,
                  defers,
                  initRes, now, sh, stops >>
  /\ UnchangedFiles /\ UnchangedRefresher /\ UnchangedTool

\* cmd.Wait() returns
MainCmdWait ==
  /\ Running("cmdWait")
  /\ shell = "exited"
  /\ Goto(Succ(variant, "cmdWait"))
  /\ UNCHANGED << variant, lookup, stub, env, RefreshInterval, initRes, now,
                  sh, shell,
                  shellCode, stops >>
  /\ UnchangedFiles /\ UnchangedRefresher /\ UnchangedTool

\* cancel()  (part_001, main.go)
MainCancel ==
  /\ Running("cancel")
  /\ ctxDone' = Cancel(rcancel)
  /\ Goto(Succ(variant, "cancel"))
  /\ UNCHANGED << variant, lookup, stub, env, RefreshInterval, initRes, now,
                  sh, shell,
                  shellCode, stops,
                  rcancel, wg, gor, nstarts >>
  /\ UnchangedFiles /\ UnchangedTool

\* wg.Wait()  (part_001, main.go)
MainWgWait ==
  /\ Running("wgWait")
  /\ WaitReturns
  /\ stops' = stops + 1
  /\ Goto(Succ(variant, "wgWait"))
  /\ UNCHANGED << variant, lookup, stub, env, RefreshInterval, initRes, now,
                  sh, shell,
                  shellCode >>
  /\ UnchangedFiles /\ UnchangedRefresher /\ UnchangedTool

\* main returns: the deferred calls run
MainReturn ==
  /\ Running("return")
  /\ Goto("unwind")
  /\ UNCHANGED << variant, lookup, stub, env, RefreshInterval, initRes, now,
                  sh, shell,
                  shellCode, stops >>
  /\ UnchangedFiles /\ UnchangedRefresher /\ UnchangedTool

\* a deferred os.Remove runs
DeferRemove ==
  /\ Running("unwind")
  /\ defers # <<>>
  /\ Head(defers) \in {"rmTok", "rmLog"}
  /\ defers' = Tail(defers)
  /\ tokExists' = IF Head(defers) = "rmTok" THEN FALSE ELSE tokExists
  /\ logExists' = IF Head(defers) = "rmLog" THEN FALSE ELSE logExists
  /\ UNCHANGED << variant, lookup, stub, env, RefreshInterval, mainpc,
                  panicking, proc,
                  initRes,
                  now, sh, shell, shellCode, stops, tokName, rLog >>
  /\ UnchangedRefresher /\ UnchangedTool

\* the deferred r.Stop() is called
DeferStop ==
  /\ Running("unwind")
  /\ defers # <<>>
  /\ Head(defers) = "stop"
  /\ defers' = Tail(defers)
  /\ mainpc' = "stopCancel"
  /\ UNCHANGED << variant, lookup, stub, env, RefreshInterval, panicking,
                  proc, initRes, now,
                  sh, shell, shellCode, stops >>
  /\ UnchangedFiles /\ UnchangedRefresher /\ UnchangedTool

\* Stop: r.cancel(); calling the nil func of a Refresher that was never
\* started is a nil dereference, which ends the process
StopCancel ==
  /\ Running("stopCancel")
  /\ IF rcancel = 0
       THEN /\ proc' = "panic"
            /\ UNCHANGED << mainpc, ctxDone >>
       ELSE /\ ctxDone' = Cancel(rcancel)
            /\ mainpc' = "stopWait"
            /\ UNCHANGED proc
  /\ UNCHANGED << variant, lookup, stub, env, RefreshInterval, panicking,
                  defers, initRes,
                  now,
                  sh, shell, shellCode, stops, rcancel, wg, gor, nstarts >>
  /\ UnchangedFiles /\ UnchangedTool

\* Stop: r.wg.Wait() returns, and so does Stop
StopWait(back) ==
  /\ Running("stopWait")
  /\ WaitReturns
  /\ stops' = stops + 1
  /\ Goto(back)
  /\ UNCHANGED << variant, lookup, stub, env, RefreshInterval, initRes, now,
                  sh, shell,
                  shellCode >>
  /\ UnchangedFiles /\ UnchangedRefresher /\ UnchangedTool

\* no deferred call is left: the process ends
MainExit ==
  /\ Running("unwind")
  /\ defers = <<>>
  /\ proc' = IF panicking THEN "panic" ELSE "exit"
  /\ UNCHANGED << variant, lookup, stub, env, RefreshInterval, mainpc,
                  panicking, defers,
                  initRes, now, sh, shell, shellCode, stops >>
  /\ UnchangedFiles /\ UnchangedRefresher /\ UnchangedTool

Next ==
  \/ MainInit
  \/ MainUser
  \/ MainCreateTemp
  \/ MainSetenv
  \/ MainCreateLog
  \/ MainRefreshBegin
  \/ MainRefreshEnd
  \/ MainStart
  \/ MainGetsh
  \/ MainCmdStart
  \/ ShellExit
  \/ MainCmdWait
  \/ MainCancel
  \/ MainWgWait
  \/ MainReturn
  \/ DeferRemove
  \/ DeferStop
  \/ StopCancel
  \/ StopWait("unwind")
  \/ MainExit
  \/ \E g \in Goroutines : GoEnter(g)
  \/ \E g \in Goroutines : GoSelectTimer(g)
  \/ \E g \in Goroutines : GoRefreshReturn(g)
  \/ \E g \in Goroutines : GoSelectCancel(g)
  \/ Tick

Spec == Init /\ [][Next]_vars

\* the scheduling: main runs on, a started tool exits, a scheduled
\* goroutine runs, and the select picks uniformly among the ready cases, so
\* a case that is ready again and again is taken.  The shell and the clock
\* owe nothing.
MainStep ==
  \/ MainInit \/ MainUser \/ MainCreateTemp \/ MainSetenv \/ MainCreateLog
  \/ MainRefreshBegin \/ MainRefreshEnd \/ MainStart \/ MainGetsh
  \/ MainCmdStart \/ MainCmdWait \/ MainCancel \/ MainWgWait \/ MainReturn
  \/ DeferRemove \/ DeferStop \/ StopCancel \/ StopWait("unwind") \/ MainExit

FairSpec ==
  /\ Spec
  /\ WF_vars(MainStep)
  /\ \A g \in Goroutines :
       /\ WF_vars(GoEnter(g))
       /\ WF_vars(GoRefreshReturn(g))
       /\ SF_vars(GoSelectCancel(g))

\* the same with weak fairness only, also for the select's cancellation case
WeakFairSpec ==
  /\ Spec
  /\ WF_vars(MainStep)
  /\ \A g \in Goroutines :
       /\ WF_vars(GoEnter(g))
       /\ WF_vars(GoRefreshReturn(g))
       /\ WF_vars(GoSelectCancel(g))

\* ------------------------------------------- a client of the Refresher type
\* a Refresher{TokenFile, Log} value, nothing started
RefresherInit ==
  /\ variant = "part_000"
  /\ env = <<>>
  /\ mainpc = "idle"
  /\ rLog \in BOOLEAN
  /\ stub = NoStub
  /\ InitCommon

\* r.Start(interval): returns nil at once
ClientStart ==
  /\ Running("idle")
  /\ \E i \in StartIntervals : StartRefresher(i)
  /\ UNCHANGED << variant, lookup, stub, env, RefreshInterval, mainpc,
                  panicking, proc,
                  defers,
                  initRes, now, sh, shell, shellCode, stops >>
  /\ UnchangedFiles /\ UnchangedTool

\* r.Stop() is called
ClientStop ==
  /\ Running("idle")
  /\ stops < MaxStarts
  /\ Goto("stopCancel")
  /\ UNCHANGED << variant, lookup, stub, env, RefreshInterval, initRes, now,
                  sh, shell,
                  shellCode, stops >>
  /\ UnchangedFiles /\ UnchangedRefresher /\ UnchangedTool

RefresherNext ==
  \/ ClientStart
  \/ ClientStop
  \/ StopCancel
  \/ StopWait("idle")
  \/ \E g \in Goroutines : GoEnter(g)
  \/ \E g \in Goroutines : GoSelectTimer(g)
  \/ \E g \in Goroutines : GoRefreshReturn(g)
  \/ \E g \in Goroutines : GoSelectCancel(g)
  \/ Tick

RefresherSpec == RefresherInit /\ [][RefresherNext]_vars

FairRefresherSpec ==
  /\ RefresherSpec
  /\ WF_vars(StopCancel)
  /\ WF_vars(StopWait("idle"))
  /\ \A g \in Goroutines :
       /\ WF_vars(GoEnter(g))
       /\ WF_vars(GoRefreshReturn(g))
       /\ WF_vars(GoSelectCancel(g))

\* ================================================================ claims
\* Stop has been called and has not returned
InStop == mainpc \in {"stopCancel", "stopWait"}

\* the process has ended
Terminated == proc # "running"

\* C1: Stop on a Refresher that was never started, and one Stop after Start,
\* completes normally: the call never panics (RefresherSpec; the client
\* code panics nowhere else).
C1_StopNeverPanics == proc # "panic"

\* C2: the process never ends while the TokenFile or the log file is still
\* on disk, on any exit path taken after their creation.
C2_FilesRemovedAtExit == Terminated => ~tokExists /\ ~logExists

\* C3: for a Refresher started once, after Stop has returned the goroutine
\* has exited, no htgettoken runs and none is started any more.
C3_NoRefreshAfterStop ==
  /\ [](nstarts = 1 /\ stops >= 1 => gor[1].pc = "done")
  /\ [][nstarts = 1 /\ stops >= 1 /\ nstarts' = 1 => calls' = calls]_vars

\* C3 witness: Stop has returned to a client whose one goroutine had run a
\* background refresh.
C3_Witness ==
  /\ nstarts = 1 /\ stops = 1 /\ mainpc = "idle"
  /\ calls >= 1 /\ gor[1].pc = "done"

\* C4: in part_000 the TokenFile is on disk from its creation until Stop has
\* returned, and it is never gone while the goroutine can still refresh.
C4_RemoveAfterStop ==
  variant = "part_000" /\ tokName # "" =>
    /\ stops = 0 => tokExists
    /\ ~tokExists => \A g \in Goroutines : ~Alive(g)

\* C4 witness: the shell failed to launch, background refreshes had run, and
\* the unwinding has removed the TokenFile.
C4_Witness ==
  /\ variant = "part_000" /\ panicking /\ tokName # "" /\ ~tokExists
  /\ calls >= 2 /\ shell = "none"

\* C5: for a positive interval, when Stop has been called and the loop is
\* not refreshing, Stop returns with no second passing: the cancellation
\* alone ends the loop, under weak fairness (WeakFairSpec).
C5_StopPrompt ==
  \A t \in 0..(MaxTime + 1) :
    ( /\ variant = "part_000" /\ InStop /\ now = t
      /\ gor[1].pc \in {"spawned", "select"} /\ gor[1].interval > 0 )
      ~> (stops >= 1 \/ now > t)

\* C5 witness: Stop waits while the loop sits in its select and the timer
\* of the ten-minute default interval is not due.
C5_Witness ==
  /\ variant = "part_000" /\ mainpc = "stopWait" /\ gor[1].pc = "select"
  /\ gor[1].interval = DefaultRefreshInterval /\ ~TimerReady(1)

\* C6: a background refresh that returns, failed or not, leaves the loop at
\* its select with a fresh timer of the full interval and leaves the
\* foreground flow as it was; only the log sink may grow; the loop ends on
\* cancellation alone.
C6_FailureKeepsLoop ==
  /\ [](\A g \in Goroutines : gor[g].pc = "done" => ctxDone[g])
  /\ [][\A g \in Goroutines :
          InFlight(g) /\ ~InFlight(g)' =>
            /\ gor'[g].pc = "select"
            /\ gor'[g].deadline = now + gor[g].interval
            /\ << mainpc, proc, panicking, defers, initRes, shell >>' =
                 << mainpc, proc, panicking, defers, initRes, shell >>
            /\ errLog' \in {errLog, errLog + 1}]_vars

\* C6 witness: two background failures are in the log and the loop still
\* waits, not cancelled.
C6_Witness ==
  \E g \in Goroutines : errLog >= 2 /\ gor[g].pc = "select" /\ ~ctxDone[g]

\* C7: whenever the refresher has been started, RefreshInterval is positive.
C7_IntervalPositive == nstarts >= 1 => RefreshInterval > 0

\* C8: the refresher is started and the shell launched only after the
\* initial Refresh(true) returned, and in part_000 and part_001 not at all
\* when it failed.
C8_InitialRefreshFirst ==
  /\ nstarts >= 1 \/ shell # "none" => initRes # "none"
  /\ variant \in {"part_000", "part_001"} /\ initRes = "err" =>
       nstarts = 0 /\ shell = "none"

\* C8 witness: part_000 ended on a failed initial refresh.
C8_Witness ==
  variant = "part_000" /\ initRes = "err" /\ proc = "fatal" /\ calls = 1

\* C9: every invocation of htgettoken is given the path of the TokenFile
\* created at startup, and neither that path nor what the tool is given
\* changes once there is an invocation.
C9_ToolGetsTokenFile ==
  /\ [](calls >= 1 => tokName # "" /\ toolDest = {tokName})
  /\ [][calls >= 1 =>
          tokName' = tokName /\ ToolDest(tokName)' = ToolDest(tokName)]_vars

\* C9 witness: the initial and a background invocation have run in a
\* process that has a TokenFile.
C9_Witness ==
  variant = "part_000" /\ calls >= 2 /\ toolDest = {tokName} /\ nstarts = 1

\* C10: once the shell has exited, whatever its code, the driver ends by a
\* normal return with the goroutine gone and neither file on disk (FairSpec).
C10_CleanupAfterShellExit ==
  shell = "exited" ~>
    /\ proc = "exit"
    /\ ~tokExists /\ ~logExists
    /\ \A g \in Goroutines : ~Alive(g)

\* C10 witness: the shell exited with a non-zero code, refreshes had run in
\* the background, and the process has ended.
C10_Witness ==
  /\ shell = "exited" /\ shellCode = 1 /\ proc = "exit" /\ calls >= 2
  /\ variant = "part_000"

\* Refresh calls that are running: the foreground one and the background ones
InFlightCount ==
  (IF mainpc = "initRefreshRun" THEN 1 ELSE 0)
    + Cardinality({g \in Goroutines : InFlight(g)})

\* C11: at most one Refresh, hence one htgettoken writing the TokenFile, is
\* in flight in any state of the driver.
C11_OneRefreshInFlight == InFlightCount <= 1

\* C11 witness: a background refresh runs, after an initial one that
\* succeeded.
C11_Witness ==
  /\ variant = "part_000" /\ initRes = "ok"
  /\ InFlightCount = 1 /\ InFlight(1)

\* ------------------------------------------------------------ C12, C13
\* the passwd line without the newline getent prints after it
StripNewline(out) ==
  IF Len(out) > 0 /\ out[Len(out)] = "\n" THEN SubSeq(out, 1, Len(out) - 1)
  ELSE out

\* the final colon-delimited field of a passwd line
LastField(out) ==
  LET line == StripNewline(out)
  IN  SubSeq(line, LastIndexColon(line) + 2, Len(line))

\* a passwd line has seven fields
IsPasswdLine(out) ==
  Cardinality({i \in 1..Len(StripNewline(out)) : out[i] = ":"}) = 6

\* C12: once Getsh has returned, the shell is SHELL when SHELL is set, and
\* otherwise the final field of the passwd line the lookup printed, with or
\* without a newline after it.
C12_ShellByPrecedence ==
  lookup.done =>
    IF LookupEnv(env, "SHELL") THEN sh = env["SHELL"]
    ELSE (lookup.exec /\ ~lookup.err /\ IsPasswdLine(lookup.out))
           => sh = LastField(lookup.out)

\* no shell path could be resolved: the lookup failed, printed nothing or
\* nothing with a field after a colon, or the value resolved is empty
ResolutionFails ==
  IF lookup.exec
    THEN \/ lookup.err
         \/ lookup.out = <<>>
         \/ LastIndexColon(StripNewline(lookup.out)) <= 0
         \/ LastField(lookup.out) = <<>>
  ELSE env["SHELL"] = <<>>

\* C13: once Getsh has returned from a failed resolution, the path the driver
\* holds for the launch is the fallback, and the driver has not aborted in
\* the resolution.
C13_FailureYieldsFallback ==
  (lookup.done /\ ResolutionFails) => sh = Fallback /\ ~panicking

\* ------------------------------------------- the driver on a discrete clock
\* part_000 with stubs: the fetch tool succeeds at once, the shell is a stub
\* that exits after its lifetime, and no step of main fails.  Every step but
\* the passing of time is instantaneous: the clock advances only when main
\* waits for the shell and every goroutine waits for a timer that is not due.
\* The scenario's 50ms and 120ms are scaled to 5s and 12s.
StubIntervals == { << "5", "s" >>, << "6", "s" >> }

StubLifetimes == {10, 12}

TimedInit ==
  /\ variant = "part_000"
  /\ \E i \in StubIntervals, s \in {<<>>} \cup {("SHELL" :> v) : v \in ShellStrings} :
       env = ("HTSHELL_REFRESH_INTERVAL" :> i) @@ s
  /\ mainpc = Head(Program(variant))
  /\ rLog = FALSE
  /\ \E l \in StubLifetimes : stub = [life |-> l, left |-> l]
  /\ InitCommon

\* the step taken does not fail
Nominal ==
  /\ proc' \in {"running", "exit"}
  /\ ~panicking'
  /\ initRes' # "err"
  /\ errLog' = errLog

\* one unit of the stub shell's lifetime passes
TimedTick ==
  /\ Running("cmdWait")
  /\ shell = "running"
  /\ stub.left > 0
  /\ \A g \in Goroutines :
       Alive(g) => gor[g].pc = "select" /\ ~TimerReady(g)
  /\ now' = now + 1
  /\ stub' = [stub EXCEPT !.left = stub.left - 1]
  /\ UNCHANGED << variant, lookup, env, RefreshInterval, mainpc, panicking,
                  proc, defers, initRes, sh, shell, shellCode, stops >>
  /\ UnchangedFiles /\ UnchangedRefresher /\ UnchangedTool

\* the stub shell exits when its lifetime is over
TimedShellExit == ShellExit /\ stub.left = 0

TimedNext ==
  \/ MainInit /\ Nominal
  \/ MainUser /\ Nominal
  \/ MainCreateTemp /\ Nominal
  \/ MainSetenv /\ Nominal
  \/ MainCreateLog /\ Nominal
  \/ MainRefreshBegin /\ Nominal
  \/ MainRefreshEnd /\ Nominal
  \/ MainStart /\ Nominal
  \/ MainGetsh /\ Nominal
  \/ MainCmdStart /\ Nominal
  \/ TimedShellExit
  \/ MainCmdWait /\ Nominal
  \/ MainReturn /\ Nominal
  \/ DeferRemove /\ Nominal
  \/ DeferStop /\ Nominal
  \/ StopCancel /\ Nominal
  \/ StopWait("unwind") /\ Nominal
  \/ MainExit /\ Nominal
  \/ \E g \in Goroutines : GoEnter(g) /\ Nominal
  \/ \E g \in Goroutines : GoSelectTimer(g) /\ Nominal
  \/ \E g \in Goroutines : GoRefreshReturn(g) /\ Nominal
  \/ \E g \in Goroutines : GoSelectCancel(g) /\ Nominal
  \/ TimedTick

TimedSpec == TimedInit /\ [][TimedNext]_vars

\* ------------------------------------------------------------------- C14
\* background refreshes so far: every invocation but the initial one
BackgroundRefreshes == calls - (IF initRes = "none" THEN 0 ELSE 1)

\* C14 as stated: a run that ends has made at least floor(T / interval)
\* background refreshes.
C14_FloorBound ==
  proc = "exit" => BackgroundRefreshes >= stub.life \div RefreshInterval

\* C14: a run that ends has made one initial refresh, before the Refresher
\* was started, and at least ceil(T / interval) - 1 background refreshes: at
\* least 2 for the interval 5 and the lifetime 12.
C14_BackgroundRefreshes ==
  /\ nstarts = 0 => calls <= 1
  /\ nstarts >= 1 => initRes = "ok" /\ calls >= 1
  /\ proc = "exit" =>
       /\ BackgroundRefreshes >=
            ((stub.life + RefreshInterval - 1) \div RefreshInterval) - 1
       /\ (RefreshInterval = 5 /\ stub.life = 12) => BackgroundRefreshes >= 2

\* C14 witness: the run of the scenario has ended after two background
\* refreshes.
C14_Witness ==
  /\ proc = "exit" /\ RefreshInterval = 5 /\ stub.life = 12
  /\ initRes = "ok" /\ BackgroundRefreshes = 2

\* ------------------------------------------------------------------- C15
\* cmd.Start() returned an error in part_000 and main panicked with it (the
\* other panic after Getsh was called is the one inside Getsh)
LaunchFailed ==
  /\ variant = "part_000" /\ panicking /\ lookup.done
  /\ ~Getsh(env, TRUE, lookup, Fallback).panic

\* C15: after a failed launch in part_000 the shell never runs and main never
\* waits for it; the process ends by the panic, and by then Stop has
\* cancelled and joined the goroutine, after that the log file was removed,
\* and after that the TokenFile.
C15_LaunchFailureCleansUp ==
  LaunchFailed =>
    /\ shell = "none"
    /\ mainpc \in {"unwind", "stopCancel", "stopWait"}
    /\ proc \in {"running", "panic"}
    /\ ~logExists =>
         /\ stops = 1 /\ ctxDone[1]
         /\ \A g \in Goroutines : ~Alive(g)
    /\ ~tokExists => ~logExists
    /\ proc = "panic" => ~tokExists /\ ~logExists

\* C15 witness: the launch failed, a background refresh had run, and the
\* process has ended with the goroutine joined and both files removed.
C15_Witness ==
  /\ LaunchFailed /\ proc = "panic" /\ stops = 1
  /\ BackgroundRefreshes >= 1 /\ ~tokExists /\ ~logExists

\* ------------------------------------------------------------------- C16
\* C16: the loop ends only from its select, by the cancellation case and with
\* no refresh in that step; a refresh in flight stays in flight or returns to
\* the select, cancelled or not; and once the loop has ended it stays ended
\* and no refresh is invoked.
C16_CancelOnlyAtSelect ==
  [][\A g \in Goroutines :
       /\ (gor[g].pc # "done" /\ gor'[g].pc = "done") =>
            gor[g].pc = "select" /\ ctxDone[g] /\ calls' = calls
       /\ InFlight(g) => gor'[g].pc \in {"refresh", "select"}
       /\ gor[g].pc = "done" => gor'[g].pc = "done" /\ calls' = calls]_vars

\* C16 witness: the loop has taken the cancellation case after a background
\* refresh, and Stop has not yet returned.
C16_Witness ==
  /\ variant = "part_000" /\ gor[1].pc = "done" /\ mainpc = "stopWait"
  /\ BackgroundRefreshes >= 1

\* ------------------------------------------------------------------- C17
\* the foreground flow is inside wg.Wait(), in Stop or inline
Joining == mainpc \in {"stopWait", "wgWait"}

\* C17 as stated: once the context of a loop is cancelled, no Refresh of that
\* loop begins.
C17_NoRefreshBeginsAfterCancel ==
  [][\A g \in Goroutines :
       ctxDone[g] => ~(~InFlight(g) /\ InFlight(g)')]_vars

\* C17: a Refresh begins after the cancellation only from the select, with
\* the timer due, while the foreground flow waits in wg.Wait(); a Refresh
\* running under a cancelled context always has the foreground flow waiting
\* for it; and none begins once the loop has taken the cancellation case.
C17_RefreshAfterCancelIsJoined ==
  [][\A g \in Goroutines :
       /\ (ctxDone[g] /\ ~InFlight(g) /\ InFlight(g)') =>
            gor[g].pc = "select" /\ TimerReady(g) /\ Joining
       /\ (ctxDone'[g] /\ InFlight(g)') => Joining'
       /\ gor[g].pc = "done" => ~InFlight(g)']_vars

\* C17 witness: Stop has cancelled and waits, the timer was due, and the
\* select took the timer case: a Refresh runs under the cancelled context.
C17_Witness ==
  /\ variant = "part_000" /\ mainpc = "stopWait"
  /\ ctxDone[1] /\ InFlight(1) /\ RefreshInterval > 0

\* ------------------------------------------------------------------- C18
\* calls of Stop made so far, and calls of Stop still deferred
StopCalls == stops + (IF InStop THEN 1 ELSE 0)

StopsDeferred == Cardinality({i \in 1..Len(defers) : defers[i] = "stop"})

\* C18: in part_000 Start is called at most once and Stop at most once, Stop
\* only after Start has returned, and at most one goroutine is alive beside
\* main.
C18_StartOnceStopOnce ==
  variant = "part_000" =>
    /\ nstarts <= 1
    /\ StopCalls + StopsDeferred <= 1
    /\ StopCalls + StopsDeferred = 1 => nstarts = 1 /\ rcancel = 1
    /\ Cardinality({g \in Goroutines : Alive(g)}) <= 1

\* C18 witness: a run of part_000 has ended after one Start and one Stop.
C18_Witness ==
  /\ variant = "part_000" /\ proc = "exit"
  /\ nstarts = 1 /\ StopCalls = 1 /\ StopsDeferred = 0

\* ------------------------------------------------------------------- C19
\* C19: while Stop waits in wg.Wait(), every goroutine that was started has
\* its context cancelled.
C19_StopCancelsAll ==
  mainpc = "stopWait" => \A g \in 1..nstarts : ctxDone[g]

====
